---- MODULE Spec2Model ----
(***************************************************************************)
(* Model of the Acma_Insights client: the insights panel state of          *)
(* UnifiedSafetyDashboard, the ChatBot widget and the streaming chat       *)
(* driver ApiService.startChatStream.                                      *)
(***************************************************************************)
EXTENDS Integers, Sequences, FiniteSets, TLC

\* ------------------------------------------------------------------ bounds
\* Insight items the server hands out over one run (each gets a fresh id).
MaxItems == 3
\* Longest list of insights one response carries.
MaxBatch == 2
\* GET /insights requests in flight at once.
MaxFetches == 1
\* Chat streams started over one run.
MaxStreams == 1
\* Frames the server writes over one run, all streams together.
MaxFrames == 3
\* Frames one read of the body delivers.
MaxChunkFrames == 2
\* Longest response body, in symbols, that is read in arbitrary pieces.
MaxBodyLen == 6
\* Events handed to the onEvent callback when it is taken on its own.
MaxEvents == 2
\* Suppliers in the rankings the radar chart is computed from.
MaxRadarSuppliers == 2
\* Largest KPI average of a ranking row.
MaxAverage == 2
\* Suppliers known to the supplier selection.
MaxSuppliers == 4

\* ------------------------------------------------------------- insights panel
VARIABLES
  aiEnabled,            \* useState(false)
  aiAnalysis,           \* useState(null): [null, insights]
  aiLoading,            \* useState(false)
  aiError,              \* useState(null): "null" or a message
  insightFeedback,      \* useState({}): index -> feedback type
  loadingMoreInsights,  \* useState(false)
  insightFetches,       \* GET /insights requests in flight
  moreFetches,          \* POST /generate_more_insights requests in flight
  nextItem,             \* next fresh insight item id the server hands out
  given,                \* history: item id -> the tag the user gave it
  lastOp,               \* history: the last insights handler that ran
  prevFeedback          \* history: insightFeedback before the last removal

insightVars == <<aiEnabled, aiAnalysis, aiLoading, aiError, insightFeedback,
                 loadingMoreInsights, insightFetches, moreFetches, nextItem,
                 given, lastOp, prevFeedback>>

FeedbackTypes == {"positive", "negative"}

NoFeedback == [k \in {} |-> "positive"]

NullAnalysis == [null |-> TRUE, insights |-> <<>>]

\* prev?.insights || []
InsightsOf(a) == IF a.null THEN <<>> ELSE a.insights

\* The indices the panel shows: 0 .. insights.length - 1.
ShownIndices == 0 .. (Len(InsightsOf(aiAnalysis)) - 1)

\* A response list of n fresh items.
FreshItems(n) == [i \in 1..n |-> nextItem + i - 1]

\* prev.insights.filter((_, idx) => idx !== indexToRemove); indices from 0.
FilterOut(s, indexToRemove) ==
  LET keep == {i \in 1..Len(s) : i - 1 # indexToRemove}
      F[i \in 0..Len(s)] ==
        IF i = 0 THEN <<>>
        ELSE IF i \in keep THEN Append(F[i-1], s[i]) ELSE F[i-1]
  IN F[Len(s)]

\* setAiAnalysis updater of handleRemoveInsight.
RemoveFromAnalysis(prev, indexToRemove) ==
  IF prev.null THEN prev
  ELSE [prev EXCEPT !.insights = FilterOut(prev.insights, indexToRemove)]

\* Mutant: keys above the removed index are kept where they are.
ReindexFeedbackNoShift(prev, indexToRemove) ==
  [j \in {i \in DOMAIN prev : i # indexToRemove} |-> prev[j]]

\* setInsightFeedback updater of handleRemoveInsight: keys below the removed
\* index are copied, keys above it are written one lower, the key itself is
\* skipped.
ReindexFeedback(prev, indexToRemove) ==
  LET below == {i \in DOMAIN prev : i < indexToRemove}
      above == {i \in DOMAIN prev : i > indexToRemove}
  IN [j \in below \cup {i - 1 : i \in above} |->
        IF j < indexToRemove THEN prev[j] ELSE prev[j + 1]]

InsightInit ==
  /\ aiEnabled = FALSE
  /\ aiAnalysis = NullAnalysis
  /\ aiLoading = FALSE
  /\ aiError = "null"
  /\ insightFeedback = NoFeedback
  /\ loadingMoreInsights = FALSE
  /\ insightFetches = 0
  /\ moreFetches = 0
  /\ nextItem = 1
  /\ given = NoFeedback
  /\ lastOp = [op |-> "none", k |-> 0]
  /\ prevFeedback = NoFeedback


\* setInsightFeedback updater of handleInsightFeedback: {...prev, [index]: type}.
SetFeedback(prev, index, feedbackType) ==
  [j \in DOMAIN prev \cup {index} |-> IF j = index THEN feedbackType ELSE prev[j]]

\* handleAIToggle(!aiEnabled), and the panel's onClose (setAiEnabled(false)).
\* Enabling starts fetchSupplierInsights(false) up to its await.
AIToggle ==
  /\ aiEnabled' = ~aiEnabled
  /\ IF ~aiEnabled
       THEN /\ insightFetches < MaxFetches
            /\ aiLoading' = TRUE
            /\ aiError' = "null"
            /\ insightFetches' = insightFetches + 1
       ELSE UNCHANGED <<aiLoading, aiError, insightFetches>>
  /\ lastOp' = [op |-> "toggle", k |-> 0]
  /\ UNCHANGED <<aiAnalysis, insightFeedback, loadingMoreInsights, moreFetches,
                 nextItem, given, prevFeedback>>

\* fetchSupplierInsights after its await, the request answered with n insights
\* (resp?.general_insights || []).
FetchInsightsOk(n) ==
  /\ insightFetches > 0
  /\ nextItem + n - 1 <= MaxItems
  /\ aiAnalysis' = [null |-> FALSE, insights |-> FreshItems(n)]
  /\ aiLoading' = FALSE
  /\ insightFetches' = insightFetches - 1
  /\ nextItem' = nextItem + n
  /\ lastOp' = [op |-> "load", k |-> n]
  /\ UNCHANGED <<aiEnabled, aiError, insightFeedback, loadingMoreInsights,
                 moreFetches, given, prevFeedback>>

\* fetchSupplierInsights after its await, the request rejected.
FetchInsightsFail ==
  /\ insightFetches > 0
  /\ aiError' = "Failed to load insights"
  /\ aiLoading' = FALSE
  /\ insightFetches' = insightFetches - 1
  /\ lastOp' = [op |-> "loadFailed", k |-> 0]
  /\ UNCHANGED <<aiEnabled, aiAnalysis, insightFeedback, loadingMoreInsights,
                 moreFetches, nextItem, given, prevFeedback>>

\* handleInsightFeedback(index, feedbackType), called by the panel for an
\* insight it shows.
InsightFeedback(index, feedbackType) ==
  /\ aiEnabled
  /\ index \in ShownIndices
  /\ insightFeedback' = SetFeedback(insightFeedback, index, feedbackType)
  /\ given' = SetFeedback(given, InsightsOf(aiAnalysis)[index + 1], feedbackType)
  /\ lastOp' = [op |-> "feedback", k |-> index]
  /\ UNCHANGED <<aiEnabled, aiAnalysis, aiLoading, aiError, loadingMoreInsights,
                 insightFetches, moreFetches, nextItem, prevFeedback>>

\* handleGenerateMoreInsights up to its await.
GenerateMore ==
  /\ aiEnabled
  /\ ~loadingMoreInsights
  /\ loadingMoreInsights' = TRUE
  /\ moreFetches' = moreFetches + 1
  /\ lastOp' = [op |-> "more", k |-> 0]
  /\ UNCHANGED <<aiEnabled, aiAnalysis, aiLoading, aiError, insightFeedback,
                 insightFetches, nextItem, given, prevFeedback>>

\* Mutant: a call made while a request is in flight issues one more.
GenerateMoreBusyStarts ==
  /\ aiEnabled
  /\ loadingMoreInsights
  /\ moreFetches' = moreFetches + 1
  /\ lastOp' = [op |-> "moreBusy", k |-> 0]
  /\ UNCHANGED <<aiEnabled, aiAnalysis, aiLoading, aiError, insightFeedback,
                 loadingMoreInsights, insightFetches, nextItem, given, prevFeedback>>

\* handleGenerateMoreInsights called while loadingMoreInsights is set: it
\* returns at its first line.
GenerateMoreBusy ==
  /\ aiEnabled
  /\ loadingMoreInsights
  /\ lastOp' = [op |-> "moreBusy", k |-> 0]
  /\ UNCHANGED <<aiEnabled, aiAnalysis, aiLoading, aiError, insightFeedback,
                 loadingMoreInsights, insightFetches, moreFetches, nextItem,
                 given, prevFeedback>>

\* Mutant: the additional insights are put in front of the list.
GenerateMoreOkInFront(n) ==
  /\ moreFetches > 0
  /\ nextItem + n - 1 <= MaxItems
  /\ aiAnalysis' = [null |-> FALSE,
                    insights |-> FreshItems(n) \o InsightsOf(aiAnalysis)]
  /\ loadingMoreInsights' = FALSE
  /\ moreFetches' = moreFetches - 1
  /\ nextItem' = nextItem + n
  /\ lastOp' = [op |-> "moreOk", k |-> n]
  /\ UNCHANGED <<aiEnabled, aiLoading, aiError, insightFeedback, insightFetches,
                 given, prevFeedback>>

\* handleGenerateMoreInsights after its await, answered with n insights
\* (resp?.additional_insights || []).
GenerateMoreOk(n) ==
  /\ moreFetches > 0
  /\ nextItem + n - 1 <= MaxItems
  /\ aiAnalysis' = [null |-> FALSE,
                    insights |-> InsightsOf(aiAnalysis) \o FreshItems(n)]
  /\ loadingMoreInsights' = FALSE
  /\ moreFetches' = moreFetches - 1
  /\ nextItem' = nextItem + n
  /\ lastOp' = [op |-> "moreOk", k |-> n]
  /\ UNCHANGED <<aiEnabled, aiLoading, aiError, insightFeedback, insightFetches,
                 given, prevFeedback>>

\* handleGenerateMoreInsights after its await, the request rejected.
GenerateMoreFail ==
  /\ moreFetches > 0
  /\ aiError' = "Failed to generate more insights"
  /\ loadingMoreInsights' = FALSE
  /\ moreFetches' = moreFetches - 1
  /\ lastOp' = [op |-> "moreFailed", k |-> 0]
  /\ UNCHANGED <<aiEnabled, aiAnalysis, aiLoading, insightFeedback,
                 insightFetches, nextItem, given, prevFeedback>>

\* handleRemoveInsight(indexToRemove), called by the panel for an insight it
\* shows.
RemoveInsight(indexToRemove) ==
  /\ aiEnabled
  /\ indexToRemove \in ShownIndices
  /\ aiAnalysis' = RemoveFromAnalysis(aiAnalysis, indexToRemove)
  /\ insightFeedback' = ReindexFeedback(insightFeedback, indexToRemove)
  /\ prevFeedback' = insightFeedback
  /\ lastOp' = [op |-> "remove", k |-> indexToRemove]
  /\ UNCHANGED <<aiEnabled, aiLoading, aiError, loadingMoreInsights,
                 insightFetches, moreFetches, nextItem, given>>

\* ------------------------------------------------ streaming driver: frames
\* The response body is text; the model keeps it as a sequence of symbols, a
\* newline or one line's text.  The lines a body of the model can hold:
\*   "U1"  data: {"type":"node_update","node":"text_to_sql"}
\*   "U2"  data: {"type":"node_update","node":"summarizer"}
\*   "F"   data: {"type":"final","data":{"final_answer":"A"}}
\*   "F0"  data: {"type":"final","data":{}}
\*   "M"   data: {"type":      (not JSON)
\* and the two pieces of the line "U1" a read can cut it into:
\*   "Ua"  data: {"type":"node_up
\*   "Ub"  date","node":"text_to_sql"}
NL == "\n"

FrameKinds == {"U1", "U2", "F", "F0", "M"}

\* The lines JSON.parse accepts, after the 'data: ' prefix is cut.
ValidJson == {"U1", "U2", "F", "F0"}

\* The texts that start with 'data: '.
DataPrefixed == FrameKinds \cup {"Ua"}

\* l.startsWith('data: ')
IsDataLine(line) == Len(line) > 0 /\ line[1] \in DataPrefixed

\* buffer.indexOf('\n\n'), counted from 1; 0 stands for -1.
SepIndex(buffer) ==
  LET hits == {i \in 1..(Len(buffer) - 1) : buffer[i] = NL /\ buffer[i + 1] = NL}
  IN IF hits = {} THEN 0 ELSE CHOOSE i \in hits : \A j \in hits : i <= j

\* String.prototype.trim on a text whose only white space is the newline.
Trim(text) ==
  LET solid == {i \in 1..Len(text) : text[i] # NL}
  IN IF solid = {} THEN <<>>
     ELSE SubSeq(text, CHOOSE i \in solid : \A j \in solid : i <= j,
                       CHOOSE i \in solid : \A j \in solid : i >= j)

\* sseChunk.split('\n')
RECURSIVE SplitLines(_)
SplitLines(text) ==
  LET cuts == {i \in 1..Len(text) : text[i] = NL}
  IN IF cuts = {} THEN <<text>>
     ELSE LET c == CHOOSE i \in cuts : \A j \in cuts : i <= j
          IN <<SubSeq(text, 1, c - 1)>> \o SplitLines(SubSeq(text, c + 1, Len(text)))

\* .find(l => l.startsWith('data: ')): the first data line, <<>> for undefined.
FindDataLine(lines) ==
  LET hits == {i \in 1..Len(lines) : IsDataLine(lines[i])}
  IN IF hits = {} THEN <<>>
     ELSE lines[CHOOSE i \in hits : \A j \in hits : i <= j]

\* JSON.parse(dataLine.slice(6)): the event, or "throw" when the text is not
\* JSON (a data line followed by more text on the same line is not).
ParseEvent(dataLine) ==
  IF Len(dataLine) = 1 /\ dataLine[1] \in ValidJson THEN dataLine[1] ELSE "throw"

\* Mutant: the separator is cut off one symbol short.
AfterSepShort(buffer, sepIndex) == SubSeq(buffer, sepIndex + 1, Len(buffer))

\* buffer.slice(sepIndex + 2)
AfterSep(buffer, sepIndex) == SubSeq(buffer, sepIndex + 2, Len(buffer))

\* One pass of the inner while loop over a buffer that holds a separator:
\* the event handed to onEvent, "none" when the pass hands over nothing (an
\* empty chunk, no data line), "throw" when JSON.parse throws.
FrameEvent(buffer) ==
  LET sseChunk == Trim(SubSeq(buffer, 1, SepIndex(buffer) - 1))
      dataLine == IF sseChunk = <<>> THEN <<>> ELSE FindDataLine(SplitLines(sseChunk))
  IN IF dataLine = <<>> THEN "none" ELSE ParseEvent(dataLine)

\* The events JSON.parse can hand to onEvent; the bodies of the model hold
\* the first four, the callback taken on its own gets them all:
\*   "U3" .. "U7"  node_update for the other five stages of labelMap
\*   "U8"  {"type":"node_update","node":"web_search"}   (not in labelMap)
\*   "U9"  {"type":"node_update","node":"constructor"}  (not in labelMap)
\*   "U0"  {"type":"node_update"}                       (no node)
\*   "X"   {"type":"ping"}
NodeOf ==
  [U1 |-> "text_to_sql", U2 |-> "summarizer", U3 |-> "intent_classification",
   U4 |-> "greeting", U5 |-> "execute_sql_query", U6 |-> "clarification_agent",
   U7 |-> "visualization", U8 |-> "web_search", U9 |-> "constructor", U0 |-> ""]

Events == DOMAIN NodeOf \cup {"F", "F0", "X"}

\* evt.type
EventType(evt) ==
  IF evt \in DOMAIN NodeOf THEN "node_update"
  ELSE IF evt \in {"F", "F0"} THEN "final" ELSE "other"

\* evt?.node || evt?.data?.node
EventNode(evt) == IF evt \in DOMAIN NodeOf THEN NodeOf[evt] ELSE ""

\* The names an object literal inherits from Object.prototype: the model
\* holds one of them.
InheritedNames == {"constructor"}

\* What labelMap[name] evaluates to for an inherited name: a function, not a
\* text.
Inherited(name) == "function Object() { [native code] }"

\* data.final_answer || ''
EventAnswer(evt) == IF evt = "F" THEN "A" ELSE ""

\* labelMap[node] || node, labelMap being an object literal: the lookup also
\* finds what the literal inherits.
Label(node) ==
  CASE node = "intent_classification" -> "Understanding your request"
    [] node = "greeting" -> "Responding"
    [] node = "text_to_sql" -> "Finding the right data"
    [] node = "execute_sql_query" -> "Pulling data"
    [] node = "summarizer" -> "Summarizing insights"
    [] node = "clarification_agent" -> "Need more details"
    [] node = "visualization" -> "Building chart"
    [] node \in InheritedNames -> Inherited(node)
    [] OTHER -> node

\* The text of one frame as the server writes it: the line and a blank line.
Encode(kind) == <<kind, NL, NL>>

RECURSIVE EncodeAll(_)
EncodeAll(kinds) ==
  IF kinds = <<>> THEN <<>> ELSE Encode(Head(kinds)) \o EncodeAll(Tail(kinds))

\* ------------------------------------------------------------ chat widget
VARIABLES
  isOpen,          \* useState(false)
  messages,        \* useState([])
  isLoading,       \* useState(false): the busy flag
  isTyping,        \* useState(false)
  progressSteps,   \* useState([])
  sessionId,       \* useState(null): "null" or "set"
  hasNewMessage,   \* useState(false)
  streams,         \* the runs of startChatStream, by the order they were started
  labelLog,        \* history: labels of the node_update events since the
                   \* progress-step list was last emptied
  written          \* history: frames the server has written, all streams together

chatVars == <<isOpen, messages, isLoading, isTyping, progressSteps, sessionId,
              hasNewMessage, streams, labelLog, written>>


StreamIds == 1..MaxStreams

\* A run of startChatStream: where run() stands, its buffer, the abort signal
\* and the isOpen its callbacks closed over; then the history of the run: the
\* frames the server wrote, the events handed to onEvent, the calls of
\* onError and why ("transport" or "aborted"), the requests issued, and the
\* callbacks after cancel() and after onError, and the calls of reader.read()
\* after cancel().  When run() returns, its buffer and closure are gone, and
\* the history of frames and events is dropped too.
NoStream ==
  [pc |-> "none", buffer |-> <<>>, aborted |-> FALSE, isOpen |-> FALSE,
   sent |-> <<>>, events |-> <<>>, errors |-> 0, cause |-> "none",
   requests |-> 0, afterCancel |-> 0, afterError |-> 0, lateReads |-> 0]

Active == {"fetch", "read", "frames"}

\* The synchronous part of run() between two awaits is never interleaved with
\* another handler.
NoSync == \A t \in StreamIds : streams[t].pc # "frames"

WelcomeMessage ==
  [role |-> "assistant", content |-> "Hello! I'm your AI assistant. How can I assist you?",
   isError |-> FALSE, of |-> 0]

UserMessage(s) == [role |-> "user", content |-> "question", isError |-> FALSE, of |-> s]

\* Mutant: the answer text is used as it comes, with no placeholder.
FinalContentRaw(streamedAnswer) == streamedAnswer

\* streamedAnswer || 'No response message'
FinalContent(streamedAnswer) ==
  IF streamedAnswer = "" THEN "No response message" ELSE streamedAnswer

AiMessage(s, evt) ==
  [role |-> "assistant", content |-> FinalContent(EventAnswer(evt)),
   isError |-> FALSE, of |-> s]

ErrorMessage(s) ==
  [role |-> "assistant",
   content |-> "Sorry, the stream encountered an error. Please try again.",
   isError |-> TRUE, of |-> s]

\* Mutant: every label is appended, equal to the last one or not.
PushStepAlways(prev, label) == Append(prev, label)

\* setProgressSteps updater of the node_update branch.
PushStep(prev, label) ==
  IF Len(prev) > 0 /\ prev[Len(prev)] = label THEN prev ELSE Append(prev, label)

ChatInit ==
  /\ isOpen = FALSE
  /\ messages = <<>>
  /\ isLoading = FALSE
  /\ isTyping = FALSE
  /\ progressSteps = <<>>
  /\ sessionId = "null"
  /\ hasNewMessage = FALSE
  /\ streams = [s \in StreamIds |-> NoStream]
  /\ labelLog = <<>>
  /\ written = 0

\* initializeConversation: startConversation() always resolves with
\* success: true, so the session id and the welcome message are set and the
\* finally block clears the busy flag.
InitializeConversation ==
  /\ sessionId' = "set"
  /\ messages' = <<WelcomeMessage>>
  /\ isLoading' = FALSE

\* handleToggleChat, and the effect that initialises the conversation when
\* the chat opens without a session id.
ToggleChat ==
  /\ NoSync
  /\ isOpen' = ~isOpen
  /\ hasNewMessage' = FALSE
  /\ IF ~isOpen /\ sessionId = "null"
       THEN InitializeConversation
       ELSE UNCHANGED <<sessionId, messages, isLoading>>
  /\ UNCHANGED <<isTyping, progressSteps, streams, labelLog, written>>

\* handleClearChat (the button is in the open chat window).
ClearChat ==
  /\ NoSync
  /\ isOpen
  /\ InitializeConversation
  /\ UNCHANGED <<isOpen, isTyping, progressSteps, hasNewMessage, streams,
                 labelLog, written>>

\* startChatStream up to the await of fetch.
StartStream(open) ==
  [NoStream EXCEPT !.pc = "fetch", !.isOpen = open, !.requests = 1]

\* handleSendMessage with a non-blank text (the input is in the open chat
\* window); it returns at once while isLoading.
SendMessage(s) ==
  /\ NoSync
  /\ isOpen
  /\ ~isLoading
  /\ streams[s].pc = "none"
  /\ \A t \in StreamIds : t < s => streams[t].pc # "none"
  /\ messages' = Append(messages, UserMessage(s))
  /\ isLoading' = TRUE
  /\ isTyping' = TRUE
  /\ progressSteps' = <<>>
  /\ labelLog' = <<>>
  /\ streams' = [streams EXCEPT ![s] = StartStream(isOpen)]
  /\ UNCHANGED <<isOpen, sessionId, hasNewMessage, written>>

\* The onEvent callback of handleSendMessage.
OnEvent(s, evt) ==
  IF EventType(evt) = "node_update"
  THEN /\ isTyping' = TRUE
       /\ progressSteps' = IF EventNode(evt) # ""
                             THEN PushStep(progressSteps, Label(EventNode(evt)))
                             ELSE progressSteps
       /\ labelLog' = IF EventNode(evt) # ""
                        THEN Append(labelLog, Label(EventNode(evt)))
                        ELSE labelLog
       /\ UNCHANGED <<messages, hasNewMessage, isLoading>>
  ELSE IF EventType(evt) = "final"
  THEN /\ messages' = Append(messages, AiMessage(s, evt))
       /\ hasNewMessage' = IF ~streams[s].isOpen THEN TRUE ELSE hasNewMessage
       /\ isTyping' = FALSE
       /\ isLoading' = FALSE
       /\ progressSteps' = <<>>
       /\ labelLog' = <<>>
  ELSE UNCHANGED <<messages, hasNewMessage, isTyping, isLoading, progressSteps, labelLog>>

\* Mutant: the error callback puts the error message in place of the transcript.
OnErrorReplaces(s) ==
  /\ messages' = <<ErrorMessage(s)>>
  /\ isTyping' = FALSE
  /\ isLoading' = FALSE
  /\ progressSteps' = <<>>
  /\ labelLog' = <<>>
  /\ UNCHANGED hasNewMessage

\* Mutant: the error callback leaves the busy flag set.
OnErrorKeepsBusy(s) ==
  /\ messages' = Append(messages, ErrorMessage(s))
  /\ isTyping' = FALSE
  /\ progressSteps' = <<>>
  /\ labelLog' = <<>>
  /\ UNCHANGED <<hasNewMessage, isLoading>>

\* The onError callback of handleSendMessage.
OnError(s) ==
  /\ messages' = Append(messages, ErrorMessage(s))
  /\ isTyping' = FALSE
  /\ isLoading' = FALSE
  /\ progressSteps' = <<>>
  /\ labelLog' = <<>>
  /\ UNCHANGED hasNewMessage

\* ----------------------------------------------- streaming driver: run()
\* Mutant: the catch block starts the request again.
CatchRetry(st, why) ==
  [st EXCEPT !.pc = "fetch", !.buffer = <<>>, !.errors = @ + 1, !.cause = why,
             !.requests = @ + 1]

\* run() has returned: what is left of its record.
Returned(st, pc) ==
  [st EXCEPT !.pc = pc, !.buffer = <<>>, !.isOpen = FALSE, !.sent = <<>>,
             !.events = <<>>]

\* The catch block of run(): onError is called and run() returns.
Catch(st, why) == [Returned(st, "errored") EXCEPT !.errors = @ + 1, !.cause = why]

\* Mutant: a frame that is not JSON ends the run through the error callback.
CatchParseFatal(st) == [st EXCEPT !.pc = "errored", !.errors = @ + 1]

\* The catch block around JSON.parse and onEvent: a warning is logged.
CatchParse(st) == st

\* The chunks one read can deliver: one or more whole frames.
Chunks == UNION {[1..n -> FrameKinds] : n \in 1..MaxChunkFrames}

\* Where run() stands once the buffer is `buffer`: in the inner loop while a
\* separator is left, else at the next reader.read().
PcFor(buffer) == IF SepIndex(buffer) = 0 THEN "read" ELSE "frames"

\* fetch resolves with an OK response that has a body; reader.read() is called.
FetchOk(s) ==
  /\ NoSync
  /\ streams[s].pc = "fetch"
  /\ ~streams[s].aborted
  /\ streams' = [streams EXCEPT ![s].pc = "read"]
  /\ UNCHANGED <<isOpen, messages, isLoading, isTyping, progressSteps, sessionId,
                 hasNewMessage, labelLog, written>>

\* fetch rejects (the network, or the aborted signal), or resolves with a
\* non-OK status or without a body: the error is thrown into the catch block.
FetchFail(s) ==
  /\ NoSync
  /\ streams[s].pc = "fetch"
  /\ streams' = [streams EXCEPT
        ![s] = Catch(@, IF streams[s].aborted THEN "aborted" ELSE "transport")]
  /\ OnError(s)
  /\ UNCHANGED <<isOpen, sessionId, written>>

\* reader.read() resolves with a chunk: it is appended to the buffer.
ReadChunk(s, kinds) ==
  /\ NoSync
  /\ streams[s].pc = "read"
  /\ ~streams[s].aborted
  /\ written + Len(kinds) <= MaxFrames
  /\ written' = written + Len(kinds)
  /\ streams' = [streams EXCEPT
        ![s].buffer = @ \o EncodeAll(kinds),
        ![s].sent = @ \o kinds,
        ![s].pc = PcFor(streams[s].buffer \o EncodeAll(kinds))]
  /\ UNCHANGED <<isOpen, messages, isLoading, isTyping, progressSteps, sessionId,
                 hasNewMessage, labelLog>>

\* One pass of the inner while loop: the first frame is cut off the buffer,
\* parsed and handed to onEvent.
Frame(s) ==
  LET st == streams[s]
      evt == FrameEvent(st.buffer)
      handed == evt \notin {"none", "throw"}
      rest == AfterSep(st.buffer, SepIndex(st.buffer))
      cut == [st EXCEPT
                !.buffer = rest,
                !.pc = PcFor(rest),
                !.events = IF handed THEN Append(@, evt) ELSE @,
                !.afterCancel = IF handed /\ st.aborted THEN @ + 1 ELSE @,
                !.lateReads = IF st.aborted /\ PcFor(rest) = "read" THEN @ + 1 ELSE @,
                !.afterError = IF handed /\ st.errors > 0 THEN @ + 1 ELSE @]
  IN /\ st.pc = "frames"
     /\ streams' = [streams EXCEPT ![s] = IF evt = "throw" THEN CatchParse(cut) ELSE cut]
     /\ IF handed
          THEN OnEvent(s, evt)
          ELSE UNCHANGED <<messages, hasNewMessage, isTyping, isLoading,
                           progressSteps, labelLog>>
     /\ UNCHANGED <<isOpen, sessionId, written>>

\* reader.read() resolves with done: the loop is left and run() returns.
ReadDone(s) ==
  /\ NoSync
  /\ streams[s].pc = "read"
  /\ ~streams[s].aborted
  /\ streams' = [streams EXCEPT ![s] = Returned(@, "ended")]
  /\ UNCHANGED <<isOpen, messages, isLoading, isTyping, progressSteps, sessionId,
                 hasNewMessage, labelLog, written>>

\* Mutant: a rejected read is swallowed and the loop calls reader.read()
\* again.
ReadFailReadsOn(s) ==
  /\ NoSync
  /\ streams[s].pc = "read"
  /\ streams' = [streams EXCEPT
        ![s].lateReads = IF streams[s].aborted THEN @ + 1 ELSE @]
  /\ UNCHANGED <<isOpen, messages, isLoading, isTyping, progressSteps, sessionId,
                 hasNewMessage, labelLog, written>>

\* reader.read() rejects: the transport failed, or the signal was aborted.
ReadFail(s) ==
  /\ NoSync
  /\ streams[s].pc = "read"
  /\ streams' = [streams EXCEPT
        ![s] = Catch(@, IF streams[s].aborted THEN "aborted" ELSE "transport")]
  /\ OnError(s)
  /\ UNCHANGED <<isOpen, sessionId, written>>

\* onEvent(evt) taken on its own: the callback of a run that is reading,
\* called with any event JSON.parse can hand over.
Deliver(s, evt) ==
  /\ streams[s].pc = "read"
  /\ Len(streams[s].events) < MaxEvents
  /\ streams' = [streams EXCEPT ![s].events = Append(@, evt)]
  /\ OnEvent(s, evt)
  /\ UNCHANGED <<isOpen, sessionId, written>>

\* cancel(): controller.abort().  It can be called between two awaits of
\* run() and from inside a callback, that is between two passes of the inner
\* loop.
Cancel(s) ==
  /\ streams[s].pc \in Active
  /\ ~streams[s].aborted
  /\ streams' = [streams EXCEPT ![s].aborted = TRUE]
  /\ UNCHANGED <<isOpen, messages, isLoading, isTyping, progressSteps, sessionId,
                 hasNewMessage, labelLog, written>>

\* ------------------------------------ streaming driver: a body read in pieces
\* The read loop of run() alone, on a response body the server has fixed,
\* with reader.read() handing it over in pieces of any size.
VARIABLES
  body,        \* the text of the response body
  bodyRead,    \* how much of it the reads have delivered
  runBuffer,   \* let buffer = ''
  runEvents,   \* history: the events handed to onEvent
  runPc,       \* "none", "read", "frames" or "ended"
  carried      \* history: what a read left cut in the buffer ("line", "sep")

decodeVars == <<body, bodyRead, runBuffer, runEvents, runPc, carried>>

BodySymbols == {NL, "Ua", "Ub", "F"}

Bodies == UNION {[1..n -> BodySymbols] : n \in 0..MaxBodyLen}

\* The text as one string: the two pieces of the line "U1", put next to each
\* other, are that line.
RECURSIVE Join(_)
Join(text) ==
  IF Len(text) < 2 THEN text
  ELSE IF text[1] = "Ua" /\ text[2] = "Ub"
    THEN <<"U1">> \o Join(SubSeq(text, 3, Len(text)))
    ELSE <<text[1]>> \o Join(Tail(text))

\* Mutant: the buffer is replaced by the chunk, nothing is carried over.
ConcatNoCarry(buffer, chunk) == Join(chunk)

\* buffer += decoder.decode(value, { stream: true })
Concat(buffer, chunk) == Join(buffer \o chunk)

\* What the end of the buffer shows of a cut: half a line, half a separator.
CutAt(buffer) ==
  IF buffer = <<>> THEN {}
  ELSE IF buffer[Len(buffer)] = "Ua" THEN {"line"}
  ELSE IF buffer[Len(buffer)] = NL /\ Len(buffer) > 1 /\ buffer[Len(buffer) - 1] # NL
    THEN {"sep"}
  ELSE {}

\* No body is being decoded.
DecodeIdle ==
  /\ body = <<>>
  /\ bodyRead = 0
  /\ runBuffer = <<>>
  /\ runEvents = <<>>
  /\ runPc = "none"
  /\ carried = {}

\* fetch has resolved with an OK response whose body is `body`, and run() is
\* at its first reader.read().
DecodeInit ==
  /\ body \in Bodies
  /\ bodyRead = 0
  /\ runBuffer = <<>>
  /\ runEvents = <<>>
  /\ runPc = "read"
  /\ carried = {}

\* reader.read() resolves with the next n symbols of the body.
DecodeRead(n) ==
  /\ runPc = "read"
  /\ bodyRead + n <= Len(body)
  /\ LET buffer == Concat(runBuffer, SubSeq(body, bodyRead + 1, bodyRead + n))
     IN /\ runBuffer' = buffer
        /\ runPc' = PcFor(buffer)
        /\ carried' = carried \cup CutAt(buffer)
  /\ bodyRead' = bodyRead + n
  /\ UNCHANGED <<body, runEvents>>

\* One pass of the inner while loop.
DecodeFrame ==
  /\ runPc = "frames"
  /\ LET evt == FrameEvent(runBuffer)
         rest == AfterSep(runBuffer, SepIndex(runBuffer))
     IN /\ runBuffer' = rest
        /\ runPc' = PcFor(rest)
        /\ runEvents' = IF evt \in {"none", "throw"} THEN runEvents
                                                     ELSE Append(runEvents, evt)
  /\ UNCHANGED <<body, bodyRead, carried>>

\* Mutant: at the end of the body what the buffer still holds is taken for
\* a last frame and handed over.
DecodeDoneFlushes ==
  /\ runPc = "read"
  /\ bodyRead = Len(body)
  /\ runPc' = "ended"
  /\ runBuffer' = <<>>
  /\ LET evt == FrameEvent(runBuffer \o <<NL, NL>>)
     IN runEvents' = IF evt \in {"none", "throw"} THEN runEvents
                                                  ELSE Append(runEvents, evt)
  /\ UNCHANGED <<body, bodyRead, carried>>

\* reader.read() resolves with done once the whole body was delivered: the
\* loop is left and run() returns; what the buffer still holds is dropped.
DecodeDone ==
  /\ runPc = "read"
  /\ bodyRead = Len(body)
  /\ runPc' = "ended"
  /\ runBuffer' = <<>>
  /\ UNCHANGED <<body, bodyRead, runEvents, carried>>

\* -------------------------------------------------------------- API client
\* One call of a method of the API client and what it settles with.
VARIABLES
  apiCall,     \* the method called and what the network answers
  apiOutcome   \* [settled |-> "pending"], or how the returned promise settled

apiVars == <<apiCall, apiOutcome>>

\* JavaScript values of the fields of a JSON body: the field is missing, the
\* empty string, or a text.
Undefined == "<undefined>"

Null == "<null>"

Truthy(v) == v \notin {Undefined, Null, ""}

\* a || b
Or(a, b) == IF Truthy(a) THEN a ELSE b

\* The values of an optional string field: missing, empty, a text.
OptText(text) == {Undefined, "", text}

\* The values of a field that holds JSON: missing, an object, a string of
\* valid JSON, a string that is not JSON.
JsonField == {Undefined, "object", "json", "malformed"}

\* typeof v === 'string'
IsString(v) == v \in {"json", "malformed"}

\* JSON.parse(v): the parsed value, or "throw".
ParseJson(v) == IF v = "json" THEN "parsed" ELSE "throw"

\* The bodies POST /chat answers with.
ChatBodies ==
  [query_result : JsonField, visualization_data : JsonField,
   final_answer : OptText("answer"), sql_query : {Undefined, "SELECT 1"}]

\* What axios hands to the response interceptor: a response with a 2xx
\* status, an error with a response, an error with a request only, an error
\* with neither.
NoBody ==
  [query_result |-> Undefined, visualization_data |-> Undefined,
   final_answer |-> Undefined, sql_query |-> Undefined]

AxiosOutcomes ==
  [kind : {"fulfilled"}, data : ChatBodies, detail : {Undefined}, error : {Undefined}]
    \cup [kind : {"response"}, data : {NoBody},
          detail : OptText("detail text"), error : OptText("error text")]
    \cup [kind : {"request", "setup"}, data : {NoBody},
          detail : {Undefined}, error : {Undefined}]

\* The response interceptor of the axios instance.
Interceptor(http) ==
  IF http.kind = "fulfilled"
    THEN [settled |-> "resolved", value |-> http.data, message |-> Undefined]
  ELSE IF http.kind = "response"
    THEN [settled |-> "rejected", value |-> NoBody,
          message |-> Or(http.detail, Or(http.error, "Server error occurred"))]
  ELSE IF http.kind = "request"
    THEN [settled |-> "rejected", value |-> NoBody,
          message |-> "Network error - please check your connection"]
  ELSE [settled |-> "rejected", value |-> NoBody,
        message |-> "An unexpected error occurred"]

\* extractTextFromResponse, for a string or a missing value.
ExtractTextFromResponse(response) ==
  IF response \in {Undefined, Null} THEN Null ELSE response

\* sanitizeChartData, for an object: a copy, with displayTitle set.
SanitizeChartData(chartData) ==
  IF chartData = "object" THEN "object with displayTitle"
  ELSE "parsed with displayTitle"

\* dataContext of sendChatMessage.
DataContext(query_result) ==
  IF IsString(query_result)
    THEN IF ParseJson(query_result) = "throw" THEN Null ELSE ParseJson(query_result)
  ELSE IF Truthy(query_result) THEN query_result
  ELSE Null

\* chartData of sendChatMessage; `bound` tells whether `this` is the service.
\* Without it this.sanitizeChartData throws a TypeError inside the try block.
ChartData(visualization_data, bound) ==
  IF ~Truthy(visualization_data) THEN Null
  ELSE LET rawChartData == IF IsString(visualization_data)
                             THEN ParseJson(visualization_data)
                             ELSE visualization_data
       IN IF rawChartData = "throw" \/ ~bound THEN Null
          ELSE SanitizeChartData(rawChartData)

Pending ==
  [settled |-> "pending", success |-> FALSE, message |-> Undefined,
   data_context |-> Undefined, chart_data |-> Undefined, sql_query |-> Undefined,
   error |-> Undefined, value |-> NoBody]

\* A promise rejected with an Error of that message.
Rejected(message) == [Pending EXCEPT !.settled = "rejected", !.message = message]

\* A promise resolved with a response body.
Resolved(value) == [Pending EXCEPT !.settled = "resolved", !.value = value]

\* sendChatMessage.  `bound` is FALSE for the function exported by name
\* (export const { sendChatMessage } = apiService), which is called without
\* `this`: this.extractTextFromResponse then throws a TypeError in the try
\* block and again in the catch block, so the promise rejects.
SendChatMessage(bound, http) ==
  LET r == Interceptor(http)
  IN IF ~bound THEN Rejected("TypeError: Cannot read properties of undefined")
     ELSE IF r.settled = "rejected"
       THEN [Pending EXCEPT
               !.settled = "resolved",
               !.success = FALSE,
               !.message = Or(ExtractTextFromResponse(r.message),
                   "Sorry, I encountered an error processing your request. Please try again."),
               !.error = Or(ExtractTextFromResponse(r.message), "Error: " \o r.message)]
     ELSE [Pending EXCEPT
             !.settled = "resolved",
             !.success = TRUE,
             !.message = Or(ExtractTextFromResponse(r.value.final_answer),
                            "No response available"),
             !.data_context = DataContext(r.value.query_result),
             !.chart_data = ChartData(r.value.visualization_data, bound),
             !.sql_query = Or(r.value.sql_query, Null)]

\* What fetch settles with in uploadAndAnalyzeFile: a network failure, or a
\* response, OK or not, whose body is a JSON object (with or without a detail
\* string), the JSON null, or not JSON.
FetchOutcomes ==
  [kind : {"network"}, body : {"malformed"}, detail : {Undefined}]
    \cup [kind : {"ok", "status"}, body : {"null", "malformed"}, detail : {Undefined}]
    \cup [kind : {"ok", "status"}, body : {"object"}, detail : OptText("detail text")]

\* Mutant: the generic message is used whatever the error body says.
UploadAndAnalyzeFileGeneric(f) ==
  IF f.kind = "network" THEN Rejected("Failed to fetch")
  ELSE IF f.kind = "status" THEN Rejected("File upload failed")
  ELSE IF f.body = "malformed" THEN Rejected("SyntaxError")
  ELSE Resolved(NoBody)

\* uploadAndAnalyzeFile.
UploadAndAnalyzeFile(f) ==
  IF f.kind = "network" THEN Rejected("Failed to fetch")
  ELSE IF f.kind = "status"
    THEN Rejected(IF f.body = "object" THEN Or(f.detail, "File upload failed")
                  ELSE "File upload failed")
  ELSE IF f.body = "malformed" THEN Rejected("SyntaxError")
  ELSE Resolved(NoBody)

\* Mutant: the error string of the body is looked at before its detail.
RequestErrorFirst(http) ==
  LET r == Interceptor(http)
  IN IF http.kind = "response"
       THEN Rejected(Or(http.error, Or(http.detail, "Server error occurred")))
     ELSE IF r.settled = "rejected" THEN Rejected(r.message)
     ELSE Resolved(r.value)

\* A request through the axios instance (api.get, api.post).
Request(http) ==
  LET r == Interceptor(http)
  IN IF r.settled = "rejected" THEN Rejected(r.message) ELSE Resolved(r.value)

NoFetch == [kind |-> "none", body |-> "malformed", detail |-> Undefined]

NoHttp == [kind |-> "none", data |-> NoBody, detail |-> Undefined, error |-> Undefined]

\* The calls: a request through the axios instance, uploadAndAnalyzeFile,
\* and sendChatMessage as a method of the service or as the named export.
ApiCalls ==
  [method : {"request"}, bound : {TRUE}, http : AxiosOutcomes, fetch : {NoFetch}]
    \cup [method : {"uploadAndAnalyzeFile"}, bound : {TRUE}, http : {NoHttp},
          fetch : FetchOutcomes]
    \cup [method : {"sendChatMessage"}, bound : BOOLEAN, http : AxiosOutcomes,
          fetch : {NoFetch}]

\* No call of the API client is under way.
ApiIdle ==
  /\ apiCall = [method |-> "none", bound |-> TRUE, http |-> NoHttp, fetch |-> NoFetch]
  /\ apiOutcome = Pending

ApiInit ==
  /\ apiCall \in ApiCalls
  /\ apiOutcome = Pending

\* The promise of api.get / api.post settles.
RequestSettles ==
  /\ apiCall.method = "request"
  /\ apiOutcome.settled = "pending"
  /\ apiOutcome' = Request(apiCall.http)
  /\ UNCHANGED apiCall

\* The promise of uploadAndAnalyzeFile settles.
UploadSettles ==
  /\ apiCall.method = "uploadAndAnalyzeFile"
  /\ apiOutcome.settled = "pending"
  /\ apiOutcome' = UploadAndAnalyzeFile(apiCall.fetch)
  /\ UNCHANGED apiCall

\* The promise of sendChatMessage settles.
SendChatSettles ==
  /\ apiCall.method = "sendChatMessage"
  /\ apiOutcome.settled = "pending"
  /\ apiOutcome' = SendChatMessage(apiCall.bound, apiCall.http)
  /\ UNCHANGED apiCall

\* ---------------------------------------------------------- dashboard views
\* One render of a dashboard view on what GET /dashboard answered.
VARIABLES
  viewCall,     \* the component and the data it gets
  viewOutcome   \* "pending", or what the render comes to

viewVars == <<viewCall, viewOutcome>>

\* The fields of the analytics object the views read before they decide what
\* to render.
AnalyticsFields == {"summary", "timeSeries", "rankings", "performanceMatrix", "metadata"}

\* What the views get: no data (null), the response with its data field
\* missing or null, the analytics object in the data field of the response,
\* or the analytics object itself; `has` are the fields the analytics object
\* holds.
DashboardData ==
  [shape : {"null", "noData"}, has : {{}}]
    \cup [shape : {"wrapped", "bare"}, has : SUBSET AnalyticsFields]

\* a.b: a TypeError when a is null or undefined.
Member(receiver) == IF receiver THEN "ok" ELSE "throw"

\* a?.b: undefined when a is null or undefined.
OptionalMember(receiver) == "ok"

\* The fields of `analytics` of SupplierDashboardCharts: data?.data || data.
AnalyticsOf(data) == IF data.shape \in {"wrapped", "bare"} THEN data.has ELSE {}

\* Mutant: the monthly series are read without optional chaining.
SupplierDashboardChartsUnguarded(data) ==
  LET analytics == data.shape # "null"
      has == AnalyticsOf(data)
      loadingState == ~analytics \/ "summary" \notin has \/ "timeSeries" \notin has
      reads == {OptionalMember(data.shape # "null"),
                IF analytics THEN Member(analytics) ELSE "ok",
                OptionalMember(analytics),
                Member("timeSeries" \in has),
                Member(TRUE),
                OptionalMember("performanceMatrix" \in has)}
  IN IF "throw" \in reads THEN "throws"
     ELSE IF loadingState THEN "placeholder" ELSE "charts"

\* SupplierDashboardCharts: the reads it makes of `data` before its early
\* return (data?.data; analytics.summary behind !analytics ||; the
\* analytics?. chains of the KPI values; analytics?.timeSeries?. of the
\* monthly series; rankings[kpi] on analytics?.rankings || {};
\* analytics?.performanceMatrix?.matrixData), then the early return on its
\* isLoading (loadingState here: the chat widget has a state of that name).
SupplierDashboardCharts(data) ==
  LET analytics == data.shape # "null"
      has == AnalyticsOf(data)
      loadingState == ~analytics \/ "summary" \notin has \/ "timeSeries" \notin has
      reads == {OptionalMember(data.shape # "null"),
                IF analytics THEN Member(analytics) ELSE "ok",
                OptionalMember(analytics),
                OptionalMember("timeSeries" \in has),
                Member(TRUE),
                OptionalMember("performanceMatrix" \in has)}
  IN IF "throw" \in reads THEN "throws"
     ELSE IF loadingState THEN "placeholder" ELSE "charts"

\* Dashboard: fetchDashboardData takes response.data?.data || response.data
\* || response (a TypeError on a null response goes to its catch block, which
\* sets the error text), reads dashboardData.rankings, and the render returns
\* the error alert, the no-data text, or the charts.
Dashboard(response) ==
  LET fetched == {Member(response.shape # "null"), Member(TRUE)}
      has == AnalyticsOf(response)
  IN IF "throw" \in fetched THEN "error"
     ELSE IF "timeSeries" \notin has THEN "placeholder"
     ELSE "charts"

\* The renders: SupplierDashboardCharts on the data state of the page (null
\* until a response is in), Dashboard on a response of GET /dashboard, which
\* is a JSON object.
ViewCalls ==
  [component : {"SupplierDashboardCharts"}, data : DashboardData]
    \cup [component : {"Dashboard"},
          data : {d \in DashboardData : d.shape # "null"}]

\* No view is being rendered.
ViewIdle ==
  /\ viewCall = [component |-> "none", data |-> [shape |-> "null", has |-> {}]]
  /\ viewOutcome = "pending"

ViewInit ==
  /\ viewCall \in ViewCalls
  /\ viewOutcome = "pending"

\* SupplierDashboardCharts renders.
RenderCharts ==
  /\ viewCall.component = "SupplierDashboardCharts"
  /\ viewOutcome = "pending"
  /\ viewOutcome' = SupplierDashboardCharts(viewCall.data)
  /\ UNCHANGED viewCall

\* Dashboard loads the response and renders.
RenderDashboard ==
  /\ viewCall.component = "Dashboard"
  /\ viewOutcome = "pending"
  /\ viewOutcome' = Dashboard(viewCall.data)
  /\ UNCHANGED viewCall

\* --------------------------------------------- chat widget: clear, step by step
\* handleClearChat with the awaits of initializeConversation told apart.
\* startConversation is an async function that resolves at once, so a call
\* of initializeConversation goes on in the microtasks of the task that
\* started it: no other handler and no callback of a stream runs in between.
VARIABLES
  initsPending,   \* calls of initializeConversation at their await
  initEffectDue,  \* a render with sessionId null is committed and the effect
                  \* on [isOpen, sessionId] has not run yet
  initsDone       \* history: calls of initializeConversation that have
                  \* returned since the last handleClearChat

clearVars == <<initsPending, initEffectDue, initsDone>>

ClearIdle ==
  /\ initsPending = 0
  /\ initEffectDue = FALSE
  /\ initsDone = 0

\* handleClearChat up to the await in initializeConversation: the transcript
\* is emptied, the session id is cleared and the busy flag is set.
HandleClearChat ==
  /\ NoSync
  /\ isOpen
  /\ initsPending = 0
  /\ messages' = <<>>
  /\ sessionId' = "null"
  /\ isLoading' = TRUE
  /\ initsPending' = 1
  /\ initEffectDue' = TRUE
  /\ initsDone' = 0
  /\ UNCHANGED <<isOpen, isTyping, progressSteps, hasNewMessage, streams,
                 labelLog, written>>

\* The effect on [isOpen, sessionId], when React commits the render with
\* sessionId null before the call started by handleClearChat has gone on:
\* initializeConversation is called a second time.
InitEffect ==
  /\ initEffectDue
  /\ isOpen
  /\ sessionId = "null"
  /\ isLoading' = TRUE
  /\ initsPending' = initsPending + 1
  /\ initEffectDue' = FALSE
  /\ UNCHANGED <<isOpen, messages, isTyping, progressSteps, sessionId,
                 hasNewMessage, streams, labelLog, written, initsDone>>

\* Mutant: the welcome message is appended to the transcript.
InitializeSettlesAppends ==
  /\ initsPending > 0
  /\ sessionId' = "set"
  /\ messages' = Append(messages, WelcomeMessage)
  /\ isLoading' = FALSE
  /\ initsPending' = initsPending - 1
  /\ initEffectDue' = FALSE
  /\ initsDone' = initsDone + 1
  /\ UNCHANGED <<isOpen, isTyping, progressSteps, hasNewMessage, streams,
                 labelLog, written>>

\* initializeConversation after its await: the session id and the welcome
\* message are set and the finally block clears the busy flag.
InitializeSettles ==
  /\ initsPending > 0
  /\ InitializeConversation
  /\ initsPending' = initsPending - 1
  /\ initEffectDue' = FALSE
  /\ initsDone' = initsDone + 1
  /\ UNCHANGED <<isOpen, isTyping, progressSteps, hasNewMessage, streams,
                 labelLog, written>>

\* ------------------------------------------------ supplier comparison charts
\* The supplier analysis state of SupplierDashboardCharts.
VARIABLES
  rankings,           \* analytics?.rankings || {}: KPI key -> rows
  selectedSuppliers,  \* useState([])
  effectDue,          \* the effect on [allSuppliers, selectedSuppliers.length]
                      \* is to run after this render
  radarData           \* [computed, series]: radarData.series once computed

chartVars == <<rankings, selectedSuppliers, effectDue, radarData>>

SupplierNames == <<"S1", "S2", "S3", "S4", "S5", "S6">>

\* radarKpis; the model holds one KPI of each direction out of the five.
RadarKpis ==
  <<[key |-> "okDeliveryPercent", higherBetter |-> TRUE],
    [key |-> "vehicleTAT", higherBetter |-> FALSE]>>

\* The keys of the rankings object, in the order Object.values goes by.
RankingKeys == {RadarKpis[i].key : i \in DOMAIN RadarKpis}

\* An average that is null (the averages of the model are numbers from 0).
NullAverage == -1

\* No radarData yet.
NoRadar == [computed |-> FALSE, series |-> <<>>]

\* (rankings[k.key] || []).find(r => r.supplier === supplier): the index of
\* the row, 0 for undefined.
FindRow(rows, supplier) ==
  LET hits == {i \in DOMAIN rows : rows[i].supplier = supplier}
  IN IF hits = {} THEN 0 ELSE CHOOSE i \in hits : \A j \in hits : i <= j

\* row?.average ?? 0
RawOf(rows, supplier) ==
  LET row == FindRow(rows, supplier)
  IN IF row = 0 THEN 0
     ELSE IF rows[row].average = NullAverage THEN 0 ELSE rows[row].average

\* vals.filter(v => typeof v === 'number')
Nums(rows) == {rows[i].average : i \in DOMAIN rows} \ {NullAverage}

\* Math.min(...nums), Math.max(...nums)
MathMin(nums) == CHOOSE n \in nums : \A m \in nums : n <= m

MathMax(nums) == CHOOSE n \in nums : \A m \in nums : n >= m

\* One entry of `normalized`: the value of a supplier in one KPI column, as
\* the fraction num / den (the code divides in floating point).
Normalized(rows, higherBetter, supplier) ==
  LET raw == RawOf(rows, supplier)
      nums == Nums(rows)
      min == IF nums # {} THEN MathMin(nums) ELSE 0
      max == IF nums # {} THEN MathMax(nums) ELSE 1
      range == IF max - min = 0 THEN 1 ELSE max - min
      val == (raw - min) * 100
  IN IF higherBetter THEN [num |-> val, den |-> range]
     ELSE [num |-> 100 * range - val, den |-> range]

\* The elements of a list, each once, in the order they first come: what
\* Array.from(new Set(...)) gives.
RECURSIVE Uniq(_)
Uniq(seq) ==
  IF seq = <<>> THEN <<>>
  ELSE LET init == Uniq(SubSeq(seq, 1, Len(seq) - 1))
           x == seq[Len(seq)]
       IN IF \E i \in DOMAIN init : init[i] = x THEN init ELSE Append(init, x)

\* The suppliers of the rows of all rankings, in the order of the keys.
RECURSIVE SuppliersFrom(_, _)
SuppliersFrom(r, k) ==
  IF k = 0 THEN <<>>
  ELSE SuppliersFrom(r, k - 1) \o
         [i \in DOMAIN r[RadarKpis[k].key] |-> r[RadarKpis[k].key][i].supplier]

\* allSuppliers (and the supplierSet of radarData)
AllSuppliers(r) == Uniq(SuppliersFrom(r, Len(RadarKpis)))

\* array.slice(0, n)
Slice(seq, n) == SubSeq(seq, 1, IF Len(seq) < n THEN Len(seq) ELSE n)

\* radarData.series
RadarSeries(r, selected) ==
  LET defaultSuppliers == Slice(AllSuppliers(r), 5)
      suppliers == IF Len(selected) > 0 THEN Slice(selected, 8) ELSE defaultSuppliers
  IN [i \in DOMAIN suppliers |->
        [name |-> suppliers[i],
         value |-> [k \in DOMAIN RadarKpis |->
                      Normalized(r[RadarKpis[k].key], RadarKpis[k].higherBetter,
                                 suppliers[i])]]]

\* The rows of a ranking: for each supplier no row, a row with an average,
\* or a row whose average is null.
Averages == 0..MaxAverage

NoRow == -2

RECURSIVE RowsOf(_, _)
RowsOf(f, n) ==
  IF n = 0 THEN <<>>
  ELSE IF f[n] = NoRow THEN RowsOf(f, n - 1)
  ELSE Append(RowsOf(f, n - 1), [supplier |-> SupplierNames[n], average |-> f[n]])

RowLists(n) ==
  {RowsOf(f, n) : f \in [1..n -> Averages \cup {NullAverage, NoRow}]}

\* A selection: some of the first n suppliers, in the order of their names.
RECURSIVE PickOf(_, _)
PickOf(f, n) ==
  IF n = 0 THEN <<>>
  ELSE IF f[n] THEN Append(PickOf(f, n - 1), SupplierNames[n]) ELSE PickOf(f, n - 1)

Picks(n) == {PickOf(f, n) : f \in [1..n -> BOOLEAN]}

ChartsIdle ==
  /\ rankings = [k \in RankingKeys |-> <<>>]
  /\ selectedSuppliers = <<>>
  /\ effectDue = FALSE
  /\ radarData = NoRadar

\* The radar chart of any rankings under any selection.
RadarInit ==
  /\ rankings \in [RankingKeys -> RowLists(MaxRadarSuppliers)]
  /\ selectedSuppliers \in Picks(MaxRadarSuppliers)
  /\ effectDue = FALSE
  /\ radarData = NoRadar

\* The useMemo of radarData runs.
ComputeRadar ==
  /\ ~radarData.computed
  /\ radarData' = [computed |-> TRUE,
                   series |-> RadarSeries(rankings, selectedSuppliers)]
  /\ UNCHANGED <<rankings, selectedSuppliers, effectDue>>

\* isAllSelected
IsAllSelected(all, selected) ==
  /\ Len(selected) = Len(all)
  /\ \A i \in DOMAIN all : \E j \in DOMAIN selected : selected[j] = all[i]

\* The value of the all-suppliers entry of the Select.
AllEntry == "__ALL__"

\* dropdownValue
DropdownValue(all, selected) ==
  IF IsAllSelected(all, selected) THEN <<AllEntry>> ELSE selected

\* The value a Select with `multiple` hands to onChange when an entry is
\* clicked: the entry is taken out of the value if it is in it, else put at
\* its end.
Clicked(value, entry) ==
  IF \E i \in DOMAIN value : value[i] = entry
    THEN SelectSeq(value, LAMBDA v : v # entry)
    ELSE Append(value, entry)

\* Mutant: the effect is not run again when the selection changes.
DepsChangedNever(prev, next) == FALSE

\* The dependencies [allSuppliers, selectedSuppliers.length] of the effect
\* have changed with the selection (the rankings stay the same object).
DepsChanged(prev, next) == Len(prev) # Len(next)

\* setSelectedSuppliers(next), and whether the effect runs after the render.
SetSelectedSuppliers(next) ==
  /\ selectedSuppliers' = next
  /\ effectDue' = DepsChanged(selectedSuppliers, next)
  /\ UNCHANGED <<rankings, radarData>>

\* The effect on [allSuppliers, selectedSuppliers.length]: an empty selection
\* becomes the first three suppliers.
RunEffect ==
  /\ effectDue
  /\ IF Len(AllSuppliers(rankings)) # 0 /\ Len(selectedSuppliers) = 0
       THEN SetSelectedSuppliers(Slice(AllSuppliers(rankings), 3))
       ELSE effectDue' = FALSE /\ UNCHANGED <<rankings, selectedSuppliers, radarData>>

\* handleSupplierSelection, called by the Select when an entry is clicked;
\* the user gets to click once the effects of the last render have run.
HandleSupplierSelection(entry) ==
  LET all == AllSuppliers(rankings)
      value == Clicked(DropdownValue(all, selectedSuppliers), entry)
  IN /\ ~effectDue
     /\ entry = AllEntry \/ \E i \in DOMAIN all : all[i] = entry
     /\ IF \E i \in DOMAIN value : value[i] = AllEntry
          THEN SetSelectedSuppliers(all)
          ELSE SetSelectedSuppliers(value)

\* The Select All / Deselect All button.
SelectAllButton ==
  LET all == AllSuppliers(rankings)
  IN /\ ~effectDue
     /\ SetSelectedSuppliers(IF IsAllSelected(all, selectedSuppliers) THEN <<>> ELSE all)

\* Rankings for the selection: each supplier has a row in the first KPI's
\* ranking, in the second's, or in none.
RECURSIVE RowsWhere(_, _, _)
RowsWhere(f, where, n) ==
  IF n = 0 THEN <<>>
  ELSE IF f[n] = where
    THEN Append(RowsWhere(f, where, n - 1), [supplier |-> SupplierNames[n], average |-> 0])
    ELSE RowsWhere(f, where, n - 1)

KnownRankings ==
  {[k \in RankingKeys |-> RowsWhere(f, k, MaxSuppliers)] :
     f \in [1..MaxSuppliers -> RankingKeys \cup {"none"}]}

\* The component is mounted with its data: nothing is selected and the
\* effects of the first render are to run.
SelectionInit ==
  /\ rankings \in KnownRankings
  /\ selectedSuppliers = <<>>
  /\ effectDue = TRUE
  /\ radarData = NoRadar

Init == InsightInit /\ ChatInit /\ DecodeIdle /\ ApiIdle /\ ViewIdle /\ ChartsIdle /\ ClearIdle

vars == <<insightVars, chatVars, decodeVars, apiVars, viewVars, chartVars, clearVars>>

\* What the handlers of the chat widget and of the driver leave alone.
notChat == <<insightVars, decodeVars, apiVars, viewVars, chartVars, clearVars>>

\* What the handlers of the insights panel leave alone.
notInsights == <<chatVars, decodeVars, apiVars, viewVars, chartVars, clearVars>>

\* What the read loop on a fixed body leaves alone.
notDecode == <<insightVars, chatVars, apiVars, viewVars, chartVars, clearVars>>

\* What a call of the API client leaves alone.
notApi == <<insightVars, chatVars, decodeVars, viewVars, chartVars, clearVars>>

\* What a render of a dashboard view leaves alone.
notView == <<insightVars, chatVars, decodeVars, apiVars, chartVars, clearVars>>

\* What the steps of clear-chat leave alone.
notClear == <<insightVars, decodeVars, apiVars, viewVars, chartVars>>

\* What the supplier comparison charts leave alone.
notCharts == <<insightVars, chatVars, decodeVars, apiVars, viewVars, clearVars>>

\* The chat widget as the page uses it: nothing keeps the handle that
\* startChatStream returns, so cancel() is never called.
Next ==
  \/ ToggleChat /\ UNCHANGED notChat
  \/ ClearChat /\ UNCHANGED notChat
  \/ \E s \in StreamIds : SendMessage(s) /\ UNCHANGED notChat
  \/ \E s \in StreamIds : FetchOk(s) /\ UNCHANGED notChat
  \/ \E s \in StreamIds : FetchFail(s) /\ UNCHANGED notChat
  \/ \E s \in StreamIds, kinds \in Chunks : ReadChunk(s, kinds) /\ UNCHANGED notChat
  \/ \E s \in StreamIds : Frame(s) /\ UNCHANGED notChat
  \/ \E s \in StreamIds : ReadDone(s) /\ UNCHANGED notChat
  \/ \E s \in StreamIds : ReadFail(s) /\ UNCHANGED notChat

Spec == Init /\ [][Next]_vars

\* The driver with a caller that keeps the handle and may call cancel().
NextCancel ==
  \/ Next
  \/ \E s \in StreamIds : Cancel(s) /\ UNCHANGED notChat

SpecCancel == Init /\ [][NextCancel]_vars

\* The chat window after it was opened for the first time: the state
\* handleToggleChat and initializeConversation leave.
ChatOpened ==
  /\ isOpen = TRUE
  /\ messages = <<WelcomeMessage>>
  /\ isLoading = FALSE
  /\ isTyping = FALSE
  /\ progressSteps = <<>>
  /\ sessionId = "set"
  /\ hasNewMessage = FALSE
  /\ streams = [s \in StreamIds |-> NoStream]
  /\ labelLog = <<>>
  /\ written = 0

InitOpened == InsightInit /\ ChatOpened /\ DecodeIdle /\ ApiIdle /\ ViewIdle /\ ChartsIdle /\ ClearIdle

\* An aborted signal rejects the pending fetch or reader.read().
AbortRejects(s) == streams[s].aborted /\ (FetchFail(s) \/ ReadFail(s))

\* The driver under a caller that sends questions in the open chat window and
\* may call cancel().
NextAbort ==
  \/ \E s \in StreamIds : SendMessage(s) /\ UNCHANGED notChat
  \/ \E s \in StreamIds : FetchOk(s) /\ UNCHANGED notChat
  \/ \E s \in StreamIds : FetchFail(s) /\ UNCHANGED notChat
  \/ \E s \in StreamIds, kinds \in Chunks : ReadChunk(s, kinds) /\ UNCHANGED notChat
  \/ \E s \in StreamIds : Frame(s) /\ UNCHANGED notChat
  \/ \E s \in StreamIds : ReadDone(s) /\ UNCHANGED notChat
  \/ \E s \in StreamIds : ReadFail(s) /\ UNCHANGED notChat
  \/ \E s \in StreamIds : Cancel(s) /\ UNCHANGED notChat

\* The synchronous inner loop runs on until the buffer holds no separator,
\* and the platform rejects the fetch or the read of an aborted signal.  The
\* first conjunct is WF_vars(Frame(s) /\ UNCHANGED notChat) with its ENABLED
\* written out: a pass of the inner loop can be taken exactly when the run
\* is in the loop.
FairAbort ==
  \A s \in StreamIds :
    /\ \/ []<>(streams[s].pc # "frames")
       \/ []<><<Frame(s) /\ UNCHANGED notChat>>_vars
    /\ WF_vars(AbortRejects(s) /\ UNCHANGED notChat)

SpecAbort == InitOpened /\ [][NextAbort]_vars /\ FairAbort

\* The pending fetch settles: it resolves or rejects.
FetchSettles(s) == FetchOk(s) \/ FetchFail(s)

\* The pending reader.read() settles: the body ends, the read rejects, or a
\* chunk comes.
ReadSettles(s) ==
  \/ ReadDone(s)
  \/ ReadFail(s)
  \/ \E kinds \in Chunks : ReadChunk(s, kinds)

\* Every stream comes to an end: besides the fairness of the inner loop and
\* of the aborted signal, no fetch and no read stays pending for ever.
FairEnd ==
  /\ FairAbort
  /\ \A s \in StreamIds :
       /\ WF_vars(FetchSettles(s) /\ UNCHANGED notChat)
       /\ WF_vars(ReadSettles(s) /\ UNCHANGED notChat)

\* The driver under a server and a network that end every stream.
SpecEnd == InitOpened /\ [][NextAbort]_vars /\ FairEnd

\* The chat widget after a question was sent and the response has arrived:
\* handleSendMessage has run and reader.read() is pending.
ChatReading ==
  /\ isOpen = TRUE
  /\ messages = <<WelcomeMessage, UserMessage(1)>>
  /\ isLoading = TRUE
  /\ isTyping = TRUE
  /\ progressSteps = <<>>
  /\ sessionId = "set"
  /\ hasNewMessage = FALSE
  /\ streams = [s \in StreamIds |->
                  IF s = 1 THEN [NoStream EXCEPT !.pc = "read", !.isOpen = TRUE,
                                                 !.requests = 1]
                           ELSE NoStream]
  /\ labelLog = <<>>
  /\ written = 0

InitEvents == InsightInit /\ ChatReading /\ DecodeIdle /\ ApiIdle /\ ViewIdle /\ ChartsIdle /\ ClearIdle

\* The onEvent callback under every event the wire can carry.
NextEvents == \E s \in StreamIds, evt \in Events : Deliver(s, evt) /\ UNCHANGED notChat

SpecEvents == InitEvents /\ [][NextEvents]_vars

\* The insights panel of the dashboard page.
NextInsights ==
  \/ AIToggle /\ UNCHANGED notInsights
  \/ \E n \in 0..MaxBatch : FetchInsightsOk(n) /\ UNCHANGED notInsights
  \/ FetchInsightsFail /\ UNCHANGED notInsights
  \/ \E i \in 0..(MaxItems - 1), t \in FeedbackTypes :
        InsightFeedback(i, t) /\ UNCHANGED notInsights
  \/ GenerateMore /\ UNCHANGED notInsights
  \/ \E n \in 0..MaxBatch : GenerateMoreOk(n) /\ UNCHANGED notInsights
  \/ GenerateMoreFail /\ UNCHANGED notInsights
  \/ \E i \in 0..(MaxItems - 1) : RemoveInsight(i) /\ UNCHANGED notInsights

SpecInsights == Init /\ [][NextInsights]_vars

\* The insights list and its requests, with every call of
\* handleGenerateMoreInsights, the ones made while a request is in flight
\* included.
NextMore ==
  \/ AIToggle /\ UNCHANGED notInsights
  \/ \E n \in 0..MaxBatch : FetchInsightsOk(n) /\ UNCHANGED notInsights
  \/ FetchInsightsFail /\ UNCHANGED notInsights
  \/ GenerateMore /\ UNCHANGED notInsights
  \/ GenerateMoreBusy /\ UNCHANGED notInsights
  \/ \E n \in 0..MaxBatch : GenerateMoreOk(n) /\ UNCHANGED notInsights
  \/ GenerateMoreFail /\ UNCHANGED notInsights

SpecMore == Init /\ [][NextMore]_vars

\* The read loop on every body of the bound, read in pieces of every size.
InitDecode == InsightInit /\ ChatInit /\ DecodeInit /\ ApiIdle /\ ViewIdle /\ ChartsIdle /\ ClearIdle

NextDecode ==
  \/ \E n \in 1..MaxBodyLen : DecodeRead(n) /\ UNCHANGED notDecode
  \/ DecodeFrame /\ UNCHANGED notDecode
  \/ DecodeDone /\ UNCHANGED notDecode

SpecDecode == InitDecode /\ [][NextDecode]_vars

\* The API client: every call of the bound, settled once.
InitApi == InsightInit /\ ChatInit /\ DecodeIdle /\ ApiInit /\ ViewIdle /\ ChartsIdle /\ ClearIdle

NextApi ==
  \/ RequestSettles /\ UNCHANGED notApi
  \/ UploadSettles /\ UNCHANGED notApi
  \/ SendChatSettles /\ UNCHANGED notApi

SpecApi == InitApi /\ [][NextApi]_vars

\* The dashboard views: every render of the bound.
InitViews == InsightInit /\ ChatInit /\ DecodeIdle /\ ApiIdle /\ ViewInit /\ ChartsIdle /\ ClearIdle

NextViews ==
  \/ RenderCharts /\ UNCHANGED notView
  \/ RenderDashboard /\ UNCHANGED notView

SpecViews == InitViews /\ [][NextViews]_vars

\* No call of initializeConversation is under way.
Quiet == initsPending = 0

\* The open chat window with questions, their streams, and clear-chat.
NextClear ==
  \/ HandleClearChat /\ UNCHANGED notClear
  \/ InitEffect /\ UNCHANGED notClear
  \/ InitializeSettles /\ UNCHANGED notClear
  \/ \E s \in StreamIds : Quiet /\ SendMessage(s) /\ UNCHANGED notChat
  \/ \E s \in StreamIds : Quiet /\ FetchOk(s) /\ UNCHANGED notChat
  \/ \E s \in StreamIds : Quiet /\ FetchFail(s) /\ UNCHANGED notChat
  \/ \E s \in StreamIds, kinds \in Chunks :
        Quiet /\ ReadChunk(s, kinds) /\ UNCHANGED notChat
  \/ \E s \in StreamIds : Quiet /\ Frame(s) /\ UNCHANGED notChat
  \/ \E s \in StreamIds : Quiet /\ ReadDone(s) /\ UNCHANGED notChat
  \/ \E s \in StreamIds : Quiet /\ ReadFail(s) /\ UNCHANGED notChat

SpecClear == InitOpened /\ [][NextClear]_vars

InitSelection ==
  InsightInit /\ ChatInit /\ DecodeIdle /\ ApiIdle /\ ViewIdle /\ SelectionInit /\ ClearIdle

\* The supplier selection of the comparison charts.
NextSelection ==
  \/ RunEffect /\ UNCHANGED notCharts
  \/ \E entry \in {SupplierNames[i] : i \in 1..MaxSuppliers} \cup {AllEntry} :
        HandleSupplierSelection(entry) /\ UNCHANGED notCharts
  \/ SelectAllButton /\ UNCHANGED notCharts

SpecSelection == InitSelection /\ [][NextSelection]_vars

InitRadar == InsightInit /\ ChatInit /\ DecodeIdle /\ ApiIdle /\ ViewIdle /\ RadarInit /\ ClearIdle

NextRadar == ComputeRadar /\ UNCHANGED notCharts

SpecRadar == InitRadar /\ [][NextRadar]_vars

\* ----------------------------------------------------------- chat: claims
Last(seq) == seq[Len(seq)]

IsPrefix(a, b) == Len(a) <= Len(b) /\ a = SubSeq(b, 1, Len(a))

\* The messages a stream's send and callbacks put into the transcript.
MessagesOf(s) == SelectSeq(messages, LAMBDA m : m.of = s)

InTranscript(m) == \E i \in DOMAIN messages : messages[i] = m

\* The events of the frames `kinds`: the frames that are JSON, in their order.
ValidOnly(kinds) == SelectSeq(kinds, LAMBDA k : k \in ValidJson)

\* `labels` with every run of equal adjacent labels cut down to one.
RECURSIVE Collapse(_)
Collapse(labels) ==
  IF Len(labels) <= 1 THEN labels
  ELSE IF labels[1] = labels[2] THEN Collapse(Tail(labels))
  ELSE <<labels[1]>> \o Collapse(Tail(labels))

\* Any number of node_update events followed by one final event.
UpdatesThenFinal(evts) ==
  /\ Len(evts) > 0
  /\ EventType(Last(evts)) = "final"
  /\ \A i \in 1..(Len(evts) - 1) : EventType(evts[i]) = "node_update"

LiveStreams == {s \in StreamIds : streams[s].pc \in Active}

\* C3: at most one stream is live, and while a stream is live the busy flag
\* is set, so that handleSendMessage rejects a send.
C3_SendRejectedWhileStreaming ==
  /\ Cardinality(LiveStreams) <= 1
  /\ LiveStreams # {} => isLoading

AnswerOrPlaceholder(evt) == IF evt = "F" THEN "A" ELSE "No response message"

\* The state part of C4 (amended): the stream's messages are the user's
\* message and one assistant message with the answer or the placeholder.
C4_OneAssistantMessage ==
  \A s \in StreamIds :
    (UpdatesThenFinal(streams[s].events) /\ InTranscript(UserMessage(s))) =>
      MessagesOf(s) =
        <<UserMessage(s),
          [role |-> "assistant",
           content |-> AnswerOrPlaceholder(Last(streams[s].events)),
           isError |-> FALSE, of |-> s]>>

\* The step that hands the final event of such a stream to onEvent.
C4_FinalHandled(s) ==
  /\ Len(streams'[s].events) = Len(streams[s].events) + 1
  /\ UpdatesThenFinal(streams'[s].events)

C5_FinalAppendedOnce ==
  \A s \in StreamIds :
    Cardinality({i \in DOMAIN messages :
                   /\ messages[i].of = s
                   /\ messages[i].role = "assistant"
                   /\ ~messages[i].isError}) <= 1

\* C6: no event of a stream is handed to onEvent after its final event.
C6_NoEventAfterFinal ==
  \A s \in StreamIds :
    \A i \in 1..(Len(streams[s].events) - 1) :
      EventType(streams[s].events[i]) # "final"

\* C7: once cancel() was called on a live stream no event callback is
\* invoked, and the error callback fires exactly once.
C7_CancelSilencesTheStream ==
  \A s \in StreamIds :
    streams[s].aborted =>
      /\ streams[s].afterCancel = 0
      /\ streams[s].errors <= 1
      /\ streams[s].pc \notin Active => streams[s].errors = 1

\* C8: a transport failure ends the run with exactly one call of the error
\* callback; no second request is issued and no event callback follows.
C8_TransportFailureEndsTheRun ==
  \A s \in StreamIds :
    /\ streams[s].errors <= 1
    /\ streams[s].requests <= 1
    /\ streams[s].afterError = 0
    /\ streams[s].errors = 1 => streams[s].pc = "errored"
    /\ streams[s].cause = "transport" =>
          (streams[s].pc = "errored" /\ streams[s].errors = 1)

\* C8 witness: a read failed after an answer had been delivered.
C8_Witness ==
  \E s \in StreamIds :
    /\ streams[s].cause = "transport"
    /\ streams[s].pc = "errored"
    /\ InTranscript(AiMessage(s, "F"))
    /\ InTranscript(ErrorMessage(s))

\* C9: a frame that is not JSON is skipped: the events handed to onEvent are
\* the valid frames of the body, in order, those after the bad frame too, and
\* the error callback is called for a transport failure or an abort only.
C9_MalformedFrameSkipped ==
  \A s \in StreamIds :
    /\ streams[s].pc = "read" => streams[s].events = ValidOnly(streams[s].sent)
    /\ streams[s].pc = "frames" =>
          IsPrefix(streams[s].events, ValidOnly(streams[s].sent))
    /\ streams[s].errors > 0 => streams[s].cause # "none"

\* C9 witness: a bad frame between two valid ones, both handed over.
C9_Witness ==
  \E s \in StreamIds :
    /\ streams[s].sent = <<"U1", "M", "F">>
    /\ streams[s].events = <<"U1", "F">>
    /\ streams[s].pc = "read"
    /\ streams[s].errors = 0

\* C10 as stated: events are handed over in the order of the frames, and the
\* progress-step list is the labels of the node_update events received.
C10_StepsAreAllLabels ==
  /\ \A s \in StreamIds : IsPrefix(streams[s].events, ValidOnly(streams[s].sent))
  /\ progressSteps = labelLog

\* C10 (amended): events are handed over in the order of the frames, and the
\* progress-step list is the labels of the node_update events received since
\* the list was last emptied, in arrival order, with equal adjacent labels
\* shown once.
C10_StepsInArrivalOrder ==
  /\ \A s \in StreamIds : IsPrefix(streams[s].events, ValidOnly(streams[s].sent))
  /\ progressSteps = Collapse(labelLog)

\* C10 witness: three updates, the first two with the same label.
C10_Witness ==
  /\ labelLog = <<Label("text_to_sql"), Label("text_to_sql"), Label("summarizer")>>
  /\ progressSteps = <<Label("text_to_sql"), Label("summarizer")>>


\* The error messages a stream put into the transcript.
ErrorMessagesOf(s) == {i \in DOMAIN messages : messages[i] = ErrorMessage(s)}

\* All the frames the server wrote have been through the inner loop.
Drained(s) == streams[s].pc = "read" /\ streams[s].buffer = <<>>

\* C12 as stated: a stream that met a bad frame, and a stream that ended by
\* an abort, each has exactly one error message in the transcript.
C12_BadFrameOrAbortGivesErrorMessage ==
  \A s \in StreamIds :
    /\ (Drained(s) /\ \E i \in DOMAIN streams[s].sent : streams[s].sent[i] = "M") =>
          Cardinality(ErrorMessagesOf(s)) = 1
    /\ (streams[s].aborted /\ streams[s].pc = "errored") =>
          Cardinality(ErrorMessagesOf(s)) = 1

\* The state part of C12 (amended): the transcript holds one error message
\* per call of the error callback, a stream calls it at most once, a stream
\* ended by an abort has called it, and a stream calls it for a transport
\* failure or an abort only, never for a bad frame.
C12_OneErrorMessagePerFailure ==
  \A s \in StreamIds :
    /\ Cardinality(ErrorMessagesOf(s)) = streams[s].errors
    /\ streams[s].errors <= 1
    /\ (streams[s].aborted /\ streams[s].pc = "errored") => streams[s].errors = 1
    /\ streams[s].errors = 1 => streams[s].cause \in {"aborted", "transport"}

\* The step in which stream s calls the error callback.
C12_ErrorCalled(s) == streams'[s].errors = streams[s].errors + 1

\* The step in which the inner loop of stream s meets a frame that is not JSON.
C12_BadFrameMet(s) ==
  /\ streams[s].pc = "frames"
  /\ FrameEvent(streams[s].buffer) = "throw"
  /\ streams'[s].buffer # streams[s].buffer

\* C12 (amended): a mid-stream abort, like a transport failure, results in
\* exactly one terminal error message appended to the transcript, after
\* which the busy flag, the typing flag and the progress-step list are
\* cleared; a bad frame is skipped and appends no message.
C12_AbortGivesOneErrorMessage ==
  /\ []C12_OneErrorMessagePerFailure
  /\ [][\A s \in StreamIds :
          /\ C12_ErrorCalled(s) =>
                /\ messages' = Append(messages, ErrorMessage(s))
                /\ ~isLoading'
                /\ ~isTyping'
                /\ progressSteps' = <<>>
          /\ C12_BadFrameMet(s) =>
                UNCHANGED <<messages, isLoading, isTyping, progressSteps>>]_vars

\* C12 witness: a stream cancelled after two frames had been read ended with
\* one error message after the user's message, and the flags are cleared.
C12_Witness ==
  \E s \in StreamIds :
    /\ streams[s].cause = "aborted"
    /\ streams[s].pc = "errored"
    /\ written = 2
    /\ MessagesOf(s) = <<UserMessage(s), ErrorMessage(s)>>
    /\ ~isLoading
    /\ ~isTyping
    /\ progressSteps = <<>>

\* The seven stages of labelMap.
KnownStages ==
  {"intent_classification", "greeting", "text_to_sql", "execute_sql_query",
   "summarizer", "clarification_agent", "visualization"}

\* The user-facing labels of labelMap.
StageLabels ==
  {"Understanding your request", "Responding", "Finding the right data",
   "Pulling data", "Summarizing insights", "Need more details", "Building chart"}

\* What the widget shows of the chat.
ChatShown == <<messages, isLoading, isTyping, progressSteps, hasNewMessage>>

\* What onEvent is to do with evt, by the sentence of C21.
C21_Dispatched(s, evt) ==
  LET node == EventNode(evt)
  IN CASE EventType(evt) = "node_update" /\ node \in KnownStages ->
            /\ \E label \in StageLabels : progressSteps' = PushStep(progressSteps, label)
            /\ messages' = messages
       [] EventType(evt) = "node_update" /\ node \notin KnownStages /\ node # "" ->
            /\ progressSteps' = PushStep(progressSteps, node)
            /\ messages' = messages
       [] EventType(evt) = "node_update" /\ node = "" ->
            /\ progressSteps' = progressSteps
            /\ messages' = messages
       [] EventType(evt) = "final" ->
            /\ Len(messages') = Len(messages) + 1
            /\ progressSteps' = <<>>
       [] OTHER -> ChatShown' = ChatShown

\* C21: every event is handled as a progress update or as a final result: a
\* node_update of a known stage yields the stage's label, one of an unknown
\* node yields the node name, one without a node adds no step, and an event
\* of another type changes no chat state.
C21_EveryFrameDispatched ==
  [][\A s \in StreamIds :
       Len(streams'[s].events) = Len(streams[s].events) + 1 =>
         C21_Dispatched(s, Last(streams'[s].events))]_vars

\* C21 for the nodes whose name the object literal does not inherit.
C21_PlainNodesDispatched ==
  [][\A s \in StreamIds :
       (/\ Len(streams'[s].events) = Len(streams[s].events) + 1
        /\ EventNode(Last(streams'[s].events)) \notin InheritedNames) =>
         C21_Dispatched(s, Last(streams'[s].events))]_vars

\* C23: every accepted send releases the busy flag in the end, however the
\* stream ends.
C23_BusyFlagReleased == isLoading ~> ~isLoading

\* C23 for the streams that do not end by the server closing the body.
C23_BusyFlagReleasedOrBodyClosed ==
  isLoading ~> (~isLoading \/ \E s \in StreamIds : streams[s].pc = "ended")

\* The assistant messages a stream put into the transcript.
TerminalMessagesOf(s) ==
  {i \in DOMAIN messages : messages[i].of = s /\ messages[i].role = "assistant"}

\* C24: a question gets at most one terminal assistant message; its stream
\* never puts both an answer and an error message into the transcript.
C24_OneTerminalMessage ==
  \A s \in StreamIds :
    /\ Cardinality(TerminalMessagesOf(s)) <= 1
    /\ ~(\E i, j \in TerminalMessagesOf(s) : ~messages[i].isError /\ messages[j].isError)

\* No run of startChatStream is under way.
NoStreamInFlight == \A s \in StreamIds : streams[s].pc \notin Active

\* C25: when a call of initializeConversation started by clear-chat returns
\* with no stream in flight, be it the call of handleClearChat or the one of
\* the effect, the transcript is the welcome message alone, the session id
\* is set and the busy flag is false.
C25_ClearLeavesWelcome ==
  [][(initsDone' = initsDone + 1 /\ NoStreamInFlight) =>
        /\ messages' = <<WelcomeMessage>>
        /\ sessionId' = "set"
        /\ ~isLoading']_vars

\* C25 witness: a transcript with a question and its answer was cleared,
\* initializeConversation ran twice, and the welcome message stands alone.
C25_Witness ==
  /\ initsDone = 2
  /\ initsPending = 0
  /\ written > 0
  /\ NoStreamInFlight
  /\ messages = <<WelcomeMessage>>
  /\ sessionId = "set"
  /\ ~isLoading

\* The step that hands a final event of stream s to onEvent.
FinalArrives(s) ==
  /\ Len(streams'[s].events) = Len(streams[s].events) + 1
  /\ EventType(Last(streams'[s].events)) = "final"

\* C26: a final answer that arrives while the chat window is closed sets the
\* new-message flag, whatever the window was when the question was sent, and
\* the flag stays set until the chat is toggled.
C26_ClosedAtArrivalSetsFlag ==
  /\ [][\A s \in StreamIds : (FinalArrives(s) /\ ~isOpen) => hasNewMessage']_vars
  /\ [][(hasNewMessage /\ isOpen' = isOpen) => hasNewMessage']_vars

\* The step that hands a node_update event with a node to onEvent, the
\* node's label being the last step of the list.
C28_SameLabelArrives(s) ==
  /\ Len(streams'[s].events) = Len(streams[s].events) + 1
  /\ EventType(Last(streams'[s].events)) = "node_update"
  /\ EventNode(Last(streams'[s].events)) # ""
  /\ Len(progressSteps) > 0
  /\ Last(progressSteps) = Label(EventNode(Last(streams'[s].events)))

\* The step that appends a message for a stream: the user's message at the
\* send, the answer at a final event, the error message at an error.
C28_SendFinalOrError ==
  /\ Len(messages') = Len(messages) + 1
  /\ Last(messages').of \in StreamIds

\* C28: the progress-step list never holds two equal labels next to each
\* other; a node_update whose label is the last step leaves the list as it
\* is; and every send, final and error empties the list.
C28_NoEqualAdjacentSteps ==
  /\ [](\A i \in 1..(Len(progressSteps) - 1) : progressSteps[i] # progressSteps[i + 1])
  /\ [][\A s \in StreamIds : C28_SameLabelArrives(s) => progressSteps' = progressSteps]_vars
  /\ [][C28_SendFinalOrError => progressSteps' = <<>>]_vars

\* C28 witness: of three node_update events the first two had the same
\* label, and the list holds two steps.
C28_Witness ==
  /\ labelLog = <<"Summarizing insights", "Summarizing insights", "Finding the right data">>
  /\ progressSteps = <<"Summarizing insights", "Finding the right data">>

\* C18: but for handleClearChat, with the initializeConversation it runs,
\* every step leaves the transcript as it is or appends one message at its
\* end.
C18_TranscriptAppendOnly ==
  [][\/ ClearChat
     \/ messages' = messages
     \/ /\ Len(messages') = Len(messages) + 1
        /\ SubSeq(messages', 1, Len(messages)) = messages]_vars

\* C18 witness: a transcript built by four appends: the welcome message,
\* the user's message, an answer and an error message.
C18_Witness ==
  \E s \in StreamIds :
    messages = <<WelcomeMessage, UserMessage(s), AiMessage(s, "F"), ErrorMessage(s)>>

RECURSIVE Dispatched(_)
Dispatched(text) ==
  IF SepIndex(text) = 0 THEN <<>>
  ELSE LET evt == FrameEvent(text)
       IN (IF evt \in {"none", "throw"} THEN <<>> ELSE <<evt>>)
            \o Dispatched(AfterSep(text, SepIndex(text)))

\* C11: however the reads cut the body, the events handed over are those of
\* the run that gets the body in one read: after every read and its frames
\* they are the events of the part of the body delivered so far, and at the
\* end those of the whole body.
C11_ChunkingIndependent ==
  LET whole == Dispatched(Join(SubSeq(body, 1, bodyRead)))
  IN /\ runPc \in {"read", "ended"} => runEvents = whole
     /\ runPc = "frames" => IsPrefix(runEvents, whole)
     /\ runPc = "ended" => bodyRead = Len(body)

\* C11 witness: a frame whose line and whose separator were both cut by a
\* read was handed over.
C11_Witness ==
  /\ runPc = "ended"
  /\ body = <<"Ua", "Ub", NL, NL, "F", NL>>
  /\ carried = {"line", "sep"}
  /\ runEvents = <<"U1">>

\* The places of the text where a double newline starts.
SeparatorsIn(text) ==
  {i \in 1..(Len(text) - 1) : text[i] = NL /\ text[i + 1] = NL}

\* C27: an event is handed over only in a pass whose buffer holds a double
\* newline, so never more events than double newlines received; and when
\* the body ends, what is left in the buffer is dropped: no event is handed
\* over and run() returns the normal way.
C27_UnterminatedFrameDropped ==
  /\ [](Len(runEvents) <=
          Cardinality(SeparatorsIn(Join(SubSeq(body, 1, bodyRead)))))
  /\ [][Len(runEvents') > Len(runEvents) => SepIndex(runBuffer) > 0]_vars
  /\ [][(runPc = "read" /\ bodyRead = Len(body) /\ runPc' # "read") =>
          (runPc' = "ended" /\ runEvents' = runEvents)]_vars

\* C27 witness: the body ended on a final frame with half a separator; the
\* frame before it was handed over, the last one was not.
C27_Witness ==
  /\ runPc = "ended"
  /\ body = <<"Ua", "Ub", NL, NL, "F", NL>>
  /\ bodyRead = Len(body)
  /\ runEvents = <<"U1">>
  /\ runBuffer = <<>>

\* ----------------------------------------------------- API client: claims
Settled == apiOutcome.settled # "pending"

\* C13 as stated: a request that got an error response rejects with the
\* detail string of the body if the body has one, else with its error string
\* if it has one, else with 'Server error occurred'; with no response it
\* rejects with the network-failure string, otherwise with the generic
\* string; a successful request resolves to the response body.
C13_RejectsWithBodyString ==
  (apiCall.method = "request" /\ Settled) =>
    LET http == apiCall.http
    IN /\ http.kind = "fulfilled" =>
             (apiOutcome.settled = "resolved" /\ apiOutcome.value = http.data)
       /\ http.kind = "response" =>
             /\ apiOutcome.settled = "rejected"
             /\ apiOutcome.message =
                   IF http.detail # Undefined THEN http.detail
                   ELSE IF http.error # Undefined THEN http.error
                   ELSE "Server error occurred"
       /\ http.kind = "request" =>
             /\ apiOutcome.settled = "rejected"
             /\ apiOutcome.message = "Network error - please check your connection"
       /\ http.kind = "setup" =>
             /\ apiOutcome.settled = "rejected"
             /\ apiOutcome.message = "An unexpected error occurred"

\* C13 (amended): as C13, with the detail string and the error string of the
\* body used only when they are not empty: an empty detail string gives way
\* to the error string, and an empty error string to 'Server error occurred'.
C13_RejectsWithNonEmptyBodyString ==
  (apiCall.method = "request" /\ Settled) =>
    LET http == apiCall.http
    IN /\ http.kind = "fulfilled" =>
             (apiOutcome.settled = "resolved" /\ apiOutcome.value = http.data)
       /\ http.kind = "response" =>
             /\ apiOutcome.settled = "rejected"
             /\ apiOutcome.message =
                   IF http.detail \notin {Undefined, ""} THEN http.detail
                   ELSE IF http.error \notin {Undefined, ""} THEN http.error
                   ELSE "Server error occurred"
       /\ http.kind = "request" =>
             /\ apiOutcome.settled = "rejected"
             /\ apiOutcome.message = "Network error - please check your connection"
       /\ http.kind = "setup" =>
             /\ apiOutcome.settled = "rejected"
             /\ apiOutcome.message = "An unexpected error occurred"

\* C13 witness: an error response whose body has an empty detail string and
\* an error string has rejected with the error string.
C13_Witness ==
  /\ apiCall.method = "request"
  /\ apiCall.http.kind = "response"
  /\ apiCall.http.detail = ""
  /\ apiCall.http.error = "error text"
  /\ apiOutcome.settled = "rejected"
  /\ apiOutcome.message = "error text"

\* C14 as stated: uploadAndAnalyzeFile rejects on every non-OK status, with
\* the detail field of the body when the body has one, else with 'File
\* upload failed', which is also the message when the body is not JSON.
C14_UploadRejectsWithDetail ==
  (apiCall.method = "uploadAndAnalyzeFile" /\ Settled /\ apiCall.fetch.kind = "status") =>
    /\ apiOutcome.settled = "rejected"
    /\ apiOutcome.message =
          IF apiCall.fetch.body = "object" /\ apiCall.fetch.detail # Undefined
            THEN apiCall.fetch.detail
            ELSE "File upload failed"

\* C14 (amended): as C14, with the detail field used only when it is not
\* empty: an empty detail string gives the generic message.
C14_UploadRejectsWithNonEmptyDetail ==
  (apiCall.method = "uploadAndAnalyzeFile" /\ Settled /\ apiCall.fetch.kind = "status") =>
    /\ apiOutcome.settled = "rejected"
    /\ apiOutcome.message =
          IF apiCall.fetch.body = "object" /\ apiCall.fetch.detail \notin {Undefined, ""}
            THEN apiCall.fetch.detail
            ELSE "File upload failed"

\* C14 witness: a non-OK answer with a detail string has rejected with it.
C14_Witness ==
  /\ apiCall.method = "uploadAndAnalyzeFile"
  /\ apiCall.fetch.kind = "status"
  /\ apiCall.fetch.body = "object"
  /\ apiCall.fetch.detail = "detail text"
  /\ apiOutcome.settled = "rejected"
  /\ apiOutcome.message = "detail text"

\* The value a JSON field that is not malformed is passed on as.
PassedOn(field) ==
  IF field = "json" THEN "parsed" ELSE IF field = "object" THEN "object" ELSE Null

\* C15: when POST /chat answers with a body whose query_result or
\* visualization_data is a string that is not JSON, sendChatMessage returns
\* success: true with that field null, the answer text, and the other
\* fields as the body has them.
C15_MalformedFieldFallsBackToNull ==
  (/\ apiCall.method = "sendChatMessage"
   /\ Settled
   /\ apiCall.http.kind = "fulfilled"
   /\ \/ apiCall.http.data.query_result = "malformed"
      \/ apiCall.http.data.visualization_data = "malformed") =>
    LET data == apiCall.http.data
    IN /\ apiOutcome.settled = "resolved"
       /\ apiOutcome.success
       /\ apiOutcome.message =
             (IF data.final_answer \in {Undefined, ""} THEN "No response available"
              ELSE data.final_answer)
       /\ apiOutcome.data_context = PassedOn(data.query_result)
       /\ apiOutcome.chart_data =
             (IF PassedOn(data.visualization_data) = Null THEN Null
              ELSE SanitizeChartData(PassedOn(data.visualization_data)))
       /\ apiOutcome.sql_query =
             (IF data.sql_query = Undefined THEN Null ELSE data.sql_query)

\* C16: the promise of sendChatMessage never rejects: it resolves with
\* success: true, or with success: false and a message and an error text.
C16_SendChatNeverRejects ==
  (apiCall.method = "sendChatMessage" /\ Settled) =>
    /\ apiOutcome.settled = "resolved"
    /\ ~apiOutcome.success =>
          (Truthy(apiOutcome.message) /\ Truthy(apiOutcome.error))

\* ------------------------------------------------- dashboard views: claims
\* The data has no timeSeries: there is no data at all, or the analytics
\* object lacks the field.
LacksTimeSeries(data) == "timeSeries" \notin AnalyticsOf(data)

C1_RemoveReindexesFeedback ==
  lastOp.op = "remove" =>
    LET k == lastOp.k
        old == DOMAIN prevFeedback
    IN /\ \A j \in old : j > k =>
             /\ (j - 1) \in DOMAIN insightFeedback
             /\ insightFeedback[j - 1] = prevFeedback[j]
       /\ \A j \in old : j < k =>
             /\ j \in DOMAIN insightFeedback
             /\ insightFeedback[j] = prevFeedback[j]
       /\ \A i \in DOMAIN insightFeedback :
             \/ i < k /\ i \in old
             \/ i >= k /\ (i + 1) \in old

\* C1 witness: a removal at a tagged key with tagged keys below and above it.
C1_Witness ==
  /\ lastOp.op = "remove"
  /\ lastOp.k \in DOMAIN prevFeedback
  /\ \E j \in DOMAIN prevFeedback : j < lastOp.k
  /\ \E j \in DOMAIN prevFeedback : j > lastOp.k

\* The step in which handleGenerateMoreInsights goes on after its await.
C19_MoreSettles == moreFetches' = moreFetches - 1

\* C19: when generate-more succeeds the additional insights are at the end
\* of the list, the insights that were there keep their places, and the
\* feedback map and the error text are as before; when it fails the list and
\* the feedback map are as before and the error text is set; either way the
\* loading-more flag is false afterwards.
C19_GenerateMoreAppends ==
  [][C19_MoreSettles =>
       /\ ~loadingMoreInsights'
       /\ insightFeedback' = insightFeedback
       /\ \/ /\ lastOp'.op = "moreOk"
             /\ InsightsOf(aiAnalysis') =
                   InsightsOf(aiAnalysis) \o [i \in 1..lastOp'.k |-> nextItem + i - 1]
             /\ aiError' = aiError
          \/ /\ lastOp'.op = "moreFailed"
             /\ aiAnalysis' = aiAnalysis
             /\ aiError' = "Failed to generate more insights"]_vars

\* C19 witness: two additional insights were appended to a list of one that
\* carries a tag.
C19_Witness ==
  /\ lastOp = [op |-> "moreOk", k |-> 2]
  /\ InsightsOf(aiAnalysis) = <<1, 2, 3>>
  /\ DOMAIN insightFeedback = {0}
  /\ ~loadingMoreInsights

\* C30: at most one generate-more request is in flight, and it is in flight
\* exactly while the loading-more flag is set; a call made meanwhile leaves
\* the requests and the list as they are; and no insight is in the list
\* twice, each batch being appended once.
C30_GenerateMoreDoesNotOverlap ==
  /\ [](moreFetches <= 1 /\ (loadingMoreInsights <=> moreFetches = 1))
  /\ [][moreFetches' > moreFetches => ~loadingMoreInsights]_vars
  /\ [][lastOp'.op = "moreBusy" =>
          (moreFetches' = moreFetches /\ aiAnalysis' = aiAnalysis)]_vars
  /\ [](\A i, j \in DOMAIN InsightsOf(aiAnalysis) :
          InsightsOf(aiAnalysis)[i] = InsightsOf(aiAnalysis)[j] => i = j)

\* C30 witness: with a request in flight and two insights in the list the
\* handler was called again and returned.
C30_Witness ==
  /\ lastOp.op = "moreBusy"
  /\ moreFetches = 1
  /\ loadingMoreInsights
  /\ Len(InsightsOf(aiAnalysis)) = 2

\* C2: every key of insightFeedback is an index of the current insights list
\* and its tag is the one the user gave to the item now at that index.
C2_FeedbackAligned ==
  \A k \in DOMAIN insightFeedback :
    /\ k \in ShownIndices
    /\ InsightsOf(aiAnalysis)[k + 1] \in DOMAIN given
    /\ insightFeedback[k] = given[InsightsOf(aiAnalysis)[k + 1]]

\* ---------------------------------------- supplier comparison charts: claims
\* C22: every value of the radar series lies between 0 and 100.
C22_RadarValuesInScale ==
  radarData.computed =>
    \A i \in DOMAIN radarData.series : \A k \in DOMAIN radarData.series[i].value :
      LET v == radarData.series[i].value[k]
      IN 0 <= v.num /\ v.num <= 100 * v.den

\* C22 for the suppliers that have a row with a number in every radar KPI.
C22_RankedValuesInScale ==
  radarData.computed =>
    \A i \in DOMAIN radarData.series : \A k \in DOMAIN radarData.series[i].value :
      LET v == radarData.series[i].value[k]
          rows == rankings[RadarKpis[k].key]
          row == FindRow(rows, radarData.series[i].name)
      IN (row # 0 /\ rows[row].average # NullAverage) =>
           (0 <= v.num /\ v.num <= 100 * v.den)

\* The elements of a list.
Range(seq) == {seq[i] : i \in DOMAIN seq}

\* C29: with a supplier known and the effects run the selection is not
\* empty; a selection that stops being empty by the effect becomes the
\* first three known suppliers; and ticking the all-suppliers entry makes
\* the selection the known suppliers, each once.
C29_SelectionNeverLeftEmpty ==
  /\ []((Len(AllSuppliers(rankings)) > 0 /\ ~effectDue) => selectedSuppliers # <<>>)
  /\ [][(effectDue /\ selectedSuppliers = <<>> /\ Len(AllSuppliers(rankings)) > 0) =>
          selectedSuppliers' = Slice(AllSuppliers(rankings), 3)]_vars
  /\ [][(/\ HandleSupplierSelection(AllEntry)
         /\ ~IsAllSelected(AllSuppliers(rankings), selectedSuppliers)) =>
          (/\ Range(selectedSuppliers') = Range(AllSuppliers(rankings))
           /\ Len(selectedSuppliers') = Cardinality(Range(AllSuppliers(rankings))))]_vars

\* C29 witness: four suppliers are known, the second KPI's ranking holding
\* the first of them; the effect has replaced the empty selection by the
\* first three in the order of the rankings.
C29_Witness ==
  /\ AllSuppliers(rankings) = <<"S2", "S3", "S4", "S1">>
  /\ selectedSuppliers = <<"S2", "S3", "S4">>
  /\ ~effectDue

====
